---- MODULE Spec2Model ----
(***************************************************************************)
(* Gemstone Store API (src/main.py, src/schemas.py): the gem collection,   *)
(* the list/get/create/update/delete/seed handlers and the in-memory       *)
(* sample dataset served when no database is configured.                   *)
(*                                                                         *)
(* Conventions of the model                                                *)
(*  - A Python str is a tuple of one-character strings.                    *)
(*  - A float is kept as an integer: weight in tenths of a carat, price in *)
(*    whole currency units (the sample data has no finer values).          *)
(*  - A dynamically typed value is tagged with its Python type in `kind`.  *)
(*  - The collection is the sequence of its documents in natural           *)
(*    (insertion) order.                                                   *)
(***************************************************************************)
EXTENDS Integers, Sequences, FiniteSets, TLC

VARIABLES db, coll, clock, nextOid, req, last, deleted

vars == <<db, coll, clock, nextOid, req, last, deleted>>

(* ------------------------------ bounds --------------------------------- *)
\* ObjectIds 1..MaxOid are the identifiers clients address; a create or a seed
\* starts only while the next ObjectId is within them.
MaxOid == 2
\* The wall clock reads 0..MaxClock.
MaxClock == 1
\* list is called with page in 1..MaxPage and limit in 1..MaxLimit.
MaxPage == 2
MaxLimit == 2
\* Worker processes that serve requests concurrently under SpecConc.
NProcs == 2

Procs == 1..NProcs

(* --------------------------- Python values ----------------------------- *)
None == [kind |-> "None"]
Missing == [kind |-> "missing"]
List(s) == [kind |-> "list", v |-> s]
Text(s) == [kind |-> "str", v |-> s]
Datetime(t) == [kind |-> "datetime", t |-> t]

\* bson.ObjectId values, 24-hex-digit strings and every other identifier string.
ObjectIdVal(n) == [kind |-> "ObjectId", n |-> n]
HexStr(n) == [kind |-> "str", hex |-> TRUE, n |-> n]
RawStr(s) == [kind |-> "str", hex |-> FALSE, s |-> s]

\* str(x) of an identifier: the hex string of an ObjectId, a string itself.
StrOf(x) == IF x.kind = "ObjectId" THEN HexStr(x.n) ELSE x

\* ObjectId(gem_id): raises (Missing here) unless gem_id is a 24-hex string.
ObjectId(s) == IF s.kind = "str" /\ s.hex THEN ObjectIdVal(s.n) ELSE Missing

(* ------------------------------ strings -------------------------------- *)
UpperCase == <<"A","B","C","D","E","F","G","H","I","J","K","L","M",
               "N","O","P","Q","R","S","T","U","V","W","X","Y","Z">>
LowerCase == <<"a","b","c","d","e","f","g","h","i","j","k","l","m",
               "n","o","p","q","r","s","t","u","v","w","x","y","z">>

LowerOf == [i \in 1..26 |-> LowerCase[i]]
ToLower == [c \in {UpperCase[i] : i \in 1..26} |->
               LowerOf[CHOOSE i \in 1..26 : UpperCase[i] = c]]

LowerChar(c) == IF c \in DOMAIN ToLower THEN ToLower[c] ELSE c

\* str.lower()
Lower(s) == [i \in 1..Len(s) |-> LowerChar(s[i])]

\* Python's `a in b` on strings: a is a substring of b.
Contains(a, b) ==
    \E i \in 0..(Len(b) - Len(a)) : \A j \in 1..Len(a) : b[i + j] = a[j]

\* One regular-expression atom against one character under $options "i":
\* "." matches any character, any other character matches itself in either
\* case. (The request strings of the model hold no other metacharacter.)
AtomMatches(a, c) == a = "." \/ LowerChar(a) = LowerChar(c)

\* {"$regex": pat, "$options": "i"}: pat matches somewhere in text.
RegexSearch(pat, text) ==
    \E i \in 0..(Len(text) - Len(pat)) :
        \A j \in 1..Len(pat) : AtomMatches(pat[j], text[i + j])

\* {"$regex": "^" + pat + "$", "$options": "i"}: pat matches all of text.
RegexFull(pat, text) ==
    /\ Len(pat) = Len(text)
    /\ \A j \in 1..Len(pat) : AtomMatches(pat[j], text[j])

(* --------------------------- sample dataset ---------------------------- *)
\* _sample_gems(); an image URL is written as its photo id.
GemRec(id, name, type, weight, price, description, certification, image, gallery) ==
    [_id |-> id, name |-> name, type |-> type, weight |-> weight, price |-> price,
     description |-> description, certification |-> certification,
     image |-> image, gallery |-> gallery,
     created_at |-> Missing, updated_at |-> Missing]

sample_gems ==
    << GemRec(RawStr("sg-1"),
              <<"I","m","p","e","r","i","a","l"," ","R","u","b","y">>,
              <<"R","u","b","y">>, 25, 12500,
              "A vivid pigeon-blood ruby with exceptional clarity.",
              Text("GIA Certified"), Text("photo-1603575449299"),
              List(<<"photo-1603575449299", "photo-1618220179428">>)),
       GemRec(RawStr("sg-2"),
              <<"A","z","u","r","e"," ","S","a","p","p","h","i","r","e">>,
              <<"S","a","p","p","h","i","r","e">>, 31, 9800,
              "Deep blue Ceylon sapphire with royal luster.",
              Text("GIA Certified"), Text("photo-1603570404763"), List(<<>>)),
       GemRec(RawStr("sg-3"),
              <<"V","e","r","d","a","n","t"," ","E","m","e","r","a","l","d">>,
              <<"E","m","e","r","a","l","d">>, 42, 15200,
              "Colombian emerald with rich green saturation.",
              Text("IGI Certified"), Text("photo-1615678857339"), List(<<>>)),
       GemRec(RawStr("sg-4"),
              <<"G","o","l","d","e","n"," ","T","o","p","a","z">>,
              <<"T","o","p","a","z">>, 50, 4200,
              "Honey gold topaz with brilliant facets.",
              None, Text("photo-1560891780"), List(<<>>)),
       GemRec(RawStr("sg-5"),
              <<"A","m","e","t","h","y","s","t"," ","R","o","y","a","l","e">>,
              <<"A","m","e","t","h","y","s","t">>, 63, 2100,
              "Regal purple amethyst with superb clarity.",
              None, Text("photo-1609250291995"), List(<<>>)),
       GemRec(RawStr("sg-6"),
              <<"C","r","y","s","t","a","l","l","i","n","e"," ","D","i","a","m","o","n","d">>,
              <<"D","i","a","m","o","n","d">>, 13, 22500,
              "Brilliant-cut diamond with fire and scintillation.",
              Text("GIA Certified"), Text("photo-1602526432604"), List(<<>>)) >>

(* ------------------------------ inputs --------------------------------- *)
\* Request bodies the Gem schema accepts (already stripped and validated).
\* Neither gives a URL; one omits gallery, the other gives it as null.
Payloads ==
    { [name |-> <<"P","i","n","k"," ","R","u","b","e","l","l","i","t","e">>,
       type |-> <<"R","u","b","e","l","l","i","t","e">>,
       weight |-> 50, price |-> 4200,
       description |-> "Deep pink rubellite tourmaline.",
       certification |-> Missing, image |-> Missing, gallery |-> Missing],
      [name |-> <<"G","o","l","d"," ","R","u","b","y">>,
       type |-> <<"r","u","b","y">>,
       weight |-> 13, price |-> 12500,
       description |-> "Small ruby set in gold.",
       certification |-> Text("GIA Certified"), image |-> Missing, gallery |-> None] }

\* gem_id path parameters: the hex form of ObjectIds 1..MaxOid and a sample id,
\* which is no 24-hex string.
GemIds == {HexStr(n) : n \in 1..MaxOid} \cup {RawStr("sg-1")}

\* type and search query parameters, each alone and both together; <<>> stands
\* for an absent (or empty) parameter, both of which Python treats as false.
Filters ==
    { [type |-> <<>>, search |-> <<>>],
      [type |-> <<"r","u","b","y">>, search |-> <<>>],
      [type |-> <<"R","u","b",".">>, search |-> <<>>],
      [type |-> <<>>, search |-> <<"g","o","l","d">>],
      [type |-> <<>>, search |-> <<"R",".","b">>],
      [type |-> <<"r","u","b","y">>, search |-> <<"g","o","l","d">>] }

ListParams ==
    { [page |-> page, limit |-> limit, sort_by |-> sort_by, sort_order |-> sort_order,
       type |-> f.type, search |-> f.search] :
         page \in 1..MaxPage, limit \in 1..MaxLimit, sort_by \in {"price", "weight"},
         sort_order \in {"asc", "desc"}, f \in Filters }

(* ------------------------------ schema --------------------------------- *)
\* Gem.model_dump(): an omitted optional field takes its default, None for
\* certification and image, default_factory=list for gallery; a field given
\* as null stays None (every optional field is Optional[...]).
ModelDump(payload) ==
    [name |-> payload.name, type |-> payload.type,
     weight |-> payload.weight, price |-> payload.price,
     description |-> payload.description,
     certification |-> IF payload.certification.kind = "missing"
                       THEN None ELSE payload.certification,
     image |-> IF payload.image.kind = "missing" THEN None ELSE payload.image,
     gallery |-> IF payload.gallery.kind = "missing"
                 THEN List(<<>>) ELSE payload.gallery]

(* ---------------------------- query engine ----------------------------- *)
\* The fallback filter of list_gems, one record at a time.
SampleMatch(g, type, search) ==
    /\ (type = <<>> \/ Lower(g.type) = Lower(type))
    /\ (search = <<>> \/ Contains(Lower(search), Lower(g.name)))

\* The query document list_gems builds, as the database evaluates it on a
\* document: both regular expressions are the request's text, unescaped.
QueryMatch(d, type, search) ==
    /\ (type = <<>> \/ RegexFull(type, d.type))
    /\ (search = <<>> \/ RegexSearch(search, d.name))

SortKey(g, sort_by) == IF sort_by = "price" THEN g.price ELSE g.weight

RemoveAt(s, i) == SubSeq(s, 1, i - 1) \o SubSeq(s, i + 1, Len(s))

\* A stable sort: the head goes behind exactly the later elements that come
\* strictly before it in the order asked for, so equal keys keep their order.
RECURSIVE StableSort(_, _, _)
StableSort(s, sort_by, descending) ==
    IF s = <<>> THEN <<>>
    ELSE LET Before(a, b) == IF descending
                             THEN SortKey(a, sort_by) > SortKey(b, sort_by)
                             ELSE SortKey(a, sort_by) < SortKey(b, sort_by)
             rest == StableSort(Tail(s), sort_by, descending)
             k == Cardinality({j \in 1..Len(rest) : Before(rest[j], Head(s))})
         IN  SubSeq(rest, 1, k) \o <<Head(s)>> \o SubSeq(rest, k + 1, Len(rest))

\* sorted(data, key=lambda x: x[sort_by], reverse=reverse)
Sorted(data, sort_by, reverse) == StableSort(data, sort_by, reverse)

\* start = (page-1)*limit
SliceStart(page, limit) == (page - 1) * limit

\* data[start:end]
PySlice(data, start, end) ==
    IF start >= Len(data) THEN <<>>
    ELSE SubSeq(data, start + 1, IF end < Len(data) THEN end ELSE Len(data))

\* list_gems when db is None.
ListSample(q) ==
    LET data == SelectSeq(sample_gems, LAMBDA g : SampleMatch(g, q.type, q.search))
        sorted == Sorted(data, q.sort_by, q.sort_order = "desc")
        start == SliceStart(q.page, q.limit)
        end == start + q.limit
    IN  [items |-> PySlice(sorted, start, end), total |-> Len(data)]

\* db["gem"].count_documents(query)
CountDocuments(c, type, search) ==
    Len(SelectSeq(c, LAMBDA d : QueryMatch(d, type, search)))

\* A skip that drops the page in view as well.
SkipCountOffByOne(page, limit) == page * limit

\* .skip((page - 1) * limit)
SkipCount(page, limit) == (page - 1) * limit

\* cursor.sort(sort_by, sort_dir); equal keys keep the natural order.
CursorSort(docs, sort_by, sort_dir) == StableSort(docs, sort_by, sort_dir = -1)

CursorSkip(docs, n) == IF n >= Len(docs) THEN <<>> ELSE SubSeq(docs, n + 1, Len(docs))

CursorLimit(docs, n) == IF n >= Len(docs) THEN docs ELSE SubSeq(docs, 1, n)

\* doc["_id"] = str(doc["_id"])
Stringified(doc) == [doc EXCEPT !._id = StrOf(doc._id)]

\* find(query).sort(...).skip(...).limit(...), each document with its
\* identifier as a string.
FindPage(c, q) ==
    LET found == SelectSeq(c, LAMBDA d : QueryMatch(d, q.type, q.search))
        sort_dir == IF q.sort_order = "asc" THEN 1 ELSE -1
        page == CursorLimit(CursorSkip(CursorSort(found, q.sort_by, sort_dir),
                                       SkipCount(q.page, q.limit)), q.limit)
    IN  [i \in 1..Len(page) |-> Stringified(page[i])]

(* ----------------------------- collection ------------------------------ *)
\* find_one({"_id": obj_id}): the first document with that identifier, or None.
FindOne(c, obj_id) ==
    IF \E i \in 1..Len(c) : c[i]._id = obj_id
    THEN c[CHOOSE i \in 1..Len(c) :
               c[i]._id = obj_id /\ \A j \in 1..(i - 1) : c[j]._id # obj_id]
    ELSE None

\* An identifier source that gives out the lowest identifier not in use.
ReusedOid(c, n) ==
    ObjectIdVal(CHOOSE k \in 1..(Len(c) + 1) :
                    /\ \A i \in 1..Len(c) : c[i]._id # ObjectIdVal(k)
                    /\ \A m \in 1..(k - 1) :
                          \E i \in 1..Len(c) : c[i]._id = ObjectIdVal(m))

\* The identifier the driver gives the n-th document it inserts without one.
FreshOid(c, n) == ObjectIdVal(n)

\* insert_one / insert_many: a document without an _id gets a new ObjectId.
WithId(c, doc, n) ==
    IF doc._id.kind = "missing" THEN [doc EXCEPT !._id = FreshOid(c, n)] ELSE doc

\* A $set that stamps created_at as well.
SetFieldsAndCreated(doc, data) ==
    [doc EXCEPT !.name = data.name, !.type = data.type, !.weight = data.weight,
                !.price = data.price, !.description = data.description,
                !.certification = data.certification, !.image = data.image,
                !.gallery = data.gallery, !.updated_at = data.updated_at,
                !.created_at = data.updated_at]

\* update_one({"_id": obj_id}, {"$set": data}) on the first matching document.
SetFields(doc, data) ==
    [doc EXCEPT !.name = data.name, !.type = data.type, !.weight = data.weight,
                !.price = data.price, !.description = data.description,
                !.certification = data.certification, !.image = data.image,
                !.gallery = data.gallery, !.updated_at = data.updated_at]

UpdateOne(c, obj_id, data) ==
    LET hit == CHOOSE i \in 1..Len(c) :
                   c[i]._id = obj_id /\ \A j \in 1..(i - 1) : c[j]._id # obj_id
    IN  [c EXCEPT ![hit] = SetFields(c[hit], data)]

\* delete_one({"_id": obj_id})
DeleteOne(c, obj_id) ==
    LET hit == CHOOSE i \in 1..Len(c) :
                   c[i]._id = obj_id /\ \A j \in 1..(i - 1) : c[j]._id # obj_id
    IN  RemoveAt(c, hit)

\* A seed that leaves the sample identifier on the record.
KeepId(g) == g

\* g.pop("_id", None)
PopId(g) == [g EXCEPT !._id = Missing]

\* seed_data's documents: the sample records without their ids, stamped now.
SeedDocs(now) ==
    [i \in 1..Len(sample_gems) |->
        [PopId(sample_gems[i]) EXCEPT !.created_at = now, !.updated_at = now]]

(* ------------------------------ responses ------------------------------ *)
Idle == [pc |-> "idle"]
Pending(op) == [op |-> op, done |-> FALSE]
Response(op, args, status, body) ==
    [op |-> op, done |-> TRUE, args |-> args, status |-> status, body |-> body]

\* datetime.now(timezone.utc)
Now == Datetime(clock)

(* ------------------------------- state --------------------------------- *)
\* db: whether the connection handle is set (db is not None); fixed at start.
\* coll: db["gem"].  clock: the wall clock.  nextOid: the driver's ObjectId
\* counter.  req: what each worker is in the middle of.  last: the outcome of
\* the latest request (pending until it is answered).  deleted: the ObjectIds
\* a delete has removed.
Init ==
    /\ db \in BOOLEAN
    /\ coll = <<>>
    /\ clock = 0
    /\ nextOid = 1
    /\ req = [p \in Procs |-> Idle]
    /\ last = Pending("none")
    /\ deleted = {}

\* The operations of the API that the model covers.
Ops == {"list", "get", "create", "update", "delete", "seed"}

Routed(op) == [pc |-> "routed", op |-> op]

\* A request arrives at an idle worker and is routed to its handler. (A
\* request that would insert arrives only while ObjectIds within MaxOid are
\* left.)
Receive(p) ==
    /\ req[p].pc = "idle"
    /\ \E op \in Ops :
          /\ op = "create" => (~db \/ nextOid <= MaxOid)
          /\ op = "seed" => (~db \/ Len(coll) > 0 \/ nextOid <= MaxOid)
          /\ req' = [req EXCEPT ![p] = Routed(op)]
          /\ last' = Pending(op)
    /\ UNCHANGED <<db, coll, clock, nextOid, deleted>>

Tick ==
    /\ clock < MaxClock
    /\ clock' = clock + 1
    /\ UNCHANGED <<db, coll, nextOid, req, last, deleted>>

\* GET /api/gems: the fallback answers at once; with a database this step is
\* the count_documents round trip.
ListCount(p) ==
    /\ req[p] = Routed("list")
    /\ \E q \in ListParams :
          IF ~db
          THEN /\ last' = Response("list", q, 200, ListSample(q))
               /\ req' = [req EXCEPT ![p] = Idle]
          ELSE /\ req' = [req EXCEPT ![p] =
                             [pc |-> "list_find", q |-> q,
                              total |-> CountDocuments(coll, q.type, q.search)]]
               /\ last' = Pending("list")
    /\ UNCHANGED <<db, coll, clock, nextOid, deleted>>

\* GET /api/gems: the find round trip and the response.
ListFind(p) ==
    /\ req[p].pc = "list_find"
    /\ last' = Response("list", req[p].q, 200,
                        [items |-> FindPage(coll, req[p].q), total |-> req[p].total])
    /\ req' = [req EXCEPT ![p] = Idle]
    /\ UNCHANGED <<db, coll, clock, nextOid, deleted>>

\* GET /api/gems/{gem_id}
GetGem(p) ==
    /\ req[p] = Routed("get")
    /\ \E gem_id \in GemIds :
          last' =
            IF ~db
            THEN IF \E i \in 1..Len(sample_gems) : sample_gems[i]._id = gem_id
                 THEN Response("get", gem_id, 200,
                               sample_gems[CHOOSE i \in 1..Len(sample_gems) :
                                               sample_gems[i]._id = gem_id])
                 ELSE Response("get", gem_id, 404, "Gem not found")
            ELSE IF ObjectId(gem_id) = Missing
                 THEN Response("get", gem_id, 400, "Invalid ID")
                 ELSE IF FindOne(coll, ObjectId(gem_id)) = None
                      THEN Response("get", gem_id, 404, "Gem not found")
                      ELSE Response("get", gem_id, 200,
                                    Stringified(FindOne(coll, ObjectId(gem_id))))
    /\ req' = [req EXCEPT ![p] = Idle]
    /\ UNCHANGED <<db, coll, clock, nextOid, deleted>>

\* create_gem's document: the dumped payload with both stamps, before insert.
NewGem(payload, now) ==
    [_id |-> Missing, name |-> ModelDump(payload).name, type |-> ModelDump(payload).type,
     weight |-> ModelDump(payload).weight, price |-> ModelDump(payload).price,
     description |-> ModelDump(payload).description,
     certification |-> ModelDump(payload).certification,
     image |-> ModelDump(payload).image, gallery |-> ModelDump(payload).gallery,
     created_at |-> now, updated_at |-> now]

\* POST /api/gems
CreateGem(p) ==
    /\ req[p] = Routed("create")
    /\ \E payload \in Payloads :
          IF ~db
          THEN /\ last' = Response("create", payload, 503, "Database not available")
               /\ UNCHANGED <<coll, nextOid>>
          ELSE /\ LET doc == WithId(coll, NewGem(payload, Now), nextOid)
                  IN  /\ coll' = Append(coll, doc)
                      /\ last' = Response("create", payload, 200, Stringified(doc))
               /\ nextOid' = nextOid + 1
    /\ req' = [req EXCEPT ![p] = Idle]
    /\ UNCHANGED <<db, clock, deleted>>

\* update_gem's $set document.
UpdateData(payload, now) ==
    [name |-> ModelDump(payload).name, type |-> ModelDump(payload).type,
     weight |-> ModelDump(payload).weight, price |-> ModelDump(payload).price,
     description |-> ModelDump(payload).description,
     certification |-> ModelDump(payload).certification,
     image |-> ModelDump(payload).image, gallery |-> ModelDump(payload).gallery,
     updated_at |-> now]

\* An update that parses the identifier before it looks for the database.
UpdateRefusalParseFirst(gem_id) ==
    IF ObjectId(gem_id) = Missing THEN 400
    ELSE IF ~db THEN 503
    ELSE 0

\* What update_gem answers before it touches the collection, if anything:
\* 503 without a database, else 400 for an identifier that does not parse.
UpdateRefusal(gem_id) ==
    IF ~db THEN 503
    ELSE IF ObjectId(gem_id) = Missing THEN 400
    ELSE 0

\* PUT /api/gems/{gem_id}: up to the update_one round trip.
UpdateWrite(p) ==
    /\ req[p] = Routed("update")
    /\ \E gem_id \in GemIds, payload \in Payloads :
          LET args == [gem_id |-> gem_id, payload |-> payload]
              obj_id == ObjectId(gem_id)
          IN  IF UpdateRefusal(gem_id) = 503
              THEN /\ last' = Response("update", args, 503, "Database not available")
                   /\ UNCHANGED coll
                   /\ req' = [req EXCEPT ![p] = Idle]
              ELSE IF UpdateRefusal(gem_id) = 400
              THEN /\ last' = Response("update", args, 400, "Invalid ID")
                   /\ UNCHANGED coll
                   /\ req' = [req EXCEPT ![p] = Idle]
              ELSE IF FindOne(coll, obj_id) = None
              THEN /\ last' = Response("update", args, 404, "Gem not found")
                   /\ UNCHANGED coll
                   /\ req' = [req EXCEPT ![p] = Idle]
              ELSE /\ coll' = UpdateOne(coll, obj_id, UpdateData(payload, Now))
                   /\ req' = [req EXCEPT ![p] =
                                 [pc |-> "update_find", args |-> args, obj_id |-> obj_id]]
                   /\ last' = Pending("update")
    /\ UNCHANGED <<db, clock, nextOid, deleted>>

\* PUT /api/gems/{gem_id}: the find_one round trip and the response. When the
\* document is gone, doc is None and doc["_id"] raises TypeError, which no
\* handler catches: the request ends as an internal server error (500).
UpdateRead(p) ==
    /\ req[p].pc = "update_find"
    /\ LET doc == FindOne(coll, req[p].obj_id)
       IN  last' = IF doc = None
                   THEN Response("update", req[p].args, 500, "TypeError")
                   ELSE Response("update", req[p].args, 200, Stringified(doc))
    /\ req' = [req EXCEPT ![p] = Idle]
    /\ UNCHANGED <<db, coll, clock, nextOid, deleted>>

\* What delete_gem answers before it touches the collection, if anything.
DeleteRefusal(gem_id) ==
    IF ~db THEN 503
    ELSE IF ObjectId(gem_id) = Missing THEN 400
    ELSE 0

\* DELETE /api/gems/{gem_id}
DeleteGem(p) ==
    /\ req[p] = Routed("delete")
    /\ \E gem_id \in GemIds :
          LET obj_id == ObjectId(gem_id)
          IN  IF DeleteRefusal(gem_id) = 503
              THEN /\ last' = Response("delete", gem_id, 503, "Database not available")
                   /\ UNCHANGED <<coll, deleted>>
              ELSE IF DeleteRefusal(gem_id) = 400
              THEN /\ last' = Response("delete", gem_id, 400, "Invalid ID")
                   /\ UNCHANGED <<coll, deleted>>
              ELSE IF FindOne(coll, obj_id) = None
              THEN /\ last' = Response("delete", gem_id, 404, "Gem not found")
                   /\ UNCHANGED <<coll, deleted>>
              ELSE /\ coll' = DeleteOne(coll, obj_id)
                   /\ deleted' = deleted \cup {obj_id}
                   /\ last' = Response("delete", gem_id, 200, [success |-> TRUE])
    /\ req' = [req EXCEPT ![p] = Idle]
    /\ UNCHANGED <<db, clock, nextOid>>

\* What seed_data answers on its count, if it answers then: not seeded without
\* a database, already seeded when count_documents({}) > 0.
SeedAnswer(c) ==
    IF ~db THEN [seeded |-> FALSE, reason |-> "Database not available"]
    ELSE IF Len(c) > 0 THEN [seeded |-> TRUE, existing |-> TRUE]
    ELSE None

\* POST /api/seed: up to the count_documents round trip.
SeedCount(p) ==
    /\ req[p] = Routed("seed")
    /\ IF SeedAnswer(coll) # None
       THEN /\ last' = Response("seed", <<>>, 200, SeedAnswer(coll))
            /\ req' = [req EXCEPT ![p] = Idle]
       ELSE /\ req' = [req EXCEPT ![p] = [pc |-> "seed_insert"]]
            /\ last' = Pending("seed")
    /\ UNCHANGED <<db, coll, clock, nextOid, deleted>>

\* POST /api/seed: the insert_many round trip and the response.
SeedInsert(p) ==
    /\ req[p].pc = "seed_insert"
    /\ LET data == SeedDocs(Now)
       IN  coll' = coll \o [i \in 1..Len(data) |-> WithId(coll, data[i], nextOid + i - 1)]
    /\ nextOid' = nextOid + Len(sample_gems)
    /\ last' = Response("seed", <<>>, 200, [seeded |-> TRUE])
    /\ req' = [req EXCEPT ![p] = Idle]
    /\ UNCHANGED <<db, clock, deleted>>

Step(p) ==
    \/ Receive(p)
    \/ ListCount(p)
    \/ ListFind(p)
    \/ GetGem(p)
    \/ CreateGem(p)
    \/ UpdateWrite(p)
    \/ UpdateRead(p)
    \/ DeleteGem(p)
    \/ SeedCount(p)
    \/ SeedInsert(p)

\* One worker: requests are served one after another.
Next == Tick \/ Step(1)

Spec == Init /\ [][Next]_vars

\* The write handlers and get on every worker, their round trips interleaved.
\* (list changes nothing a write handler reads.)
ConcStep(p) ==
    \/ Receive(p)
    \/ GetGem(p)
    \/ CreateGem(p)
    \/ UpdateWrite(p)
    \/ UpdateRead(p)
    \/ DeleteGem(p)
    \/ SeedCount(p)
    \/ SeedInsert(p)

NextConc == Tick \/ \E p \in Procs : ConcStep(p)

SpecConc == Init /\ [][NextConc]_vars

(* ====================== properties of the handlers ===================== *)
Min(a, b) == IF a < b THEN a ELSE b

\* A step that answers a request: under Spec every request is pending from
\* its arrival until its answer.
Answers == ~last.done /\ last'.done

\* The fields of the Gem schema, without identifier and stamps.
GemFields(d) ==
    [name |-> d.name, type |-> d.type, weight |-> d.weight, price |-> d.price,
     description |-> d.description, certification |-> d.certification,
     image |-> d.image, gallery |-> d.gallery]

\* The records the path of the latest answer reads, identifiers as strings.
Served == IF db THEN [i \in 1..Len(coll) |-> Stringified(coll[i])] ELSE sample_gems

\* The filter of the path of the latest answer.
PathMatch(g, q) ==
    IF db THEN QueryMatch(g, q.type, q.search) ELSE SampleMatch(g, q.type, q.search)

\* s is ordered by the sort key in the direction asked for.
Ordered(s, q) ==
    \A i \in 1..(Len(s) - 1) :
        IF q.sort_order = "desc"
        THEN SortKey(s[i], q.sort_by) >= SortKey(s[i + 1], q.sort_by)
        ELSE SortKey(s[i], q.sort_by) <= SortKey(s[i + 1], q.sort_by)

\* The full filtered-then-sorted result of the path of the latest answer.
FullResult(q) ==
    StableSort(SelectSeq(Served, LAMBDA g : PathMatch(g, q)), q.sort_by,
               q.sort_order = "desc")

\* C1: a list answer's items are the slice of the full filtered and sorted
\* result that starts at offset (page-1)*limit and holds at most limit
\* records (none when the offset is past the end), and its total is the
\* number of records that match the filter, whatever page and limit are; on
\* the fallback path and on the database path with no write during the request.
C1_PageIsSliceOfResult ==
    (last.done /\ last.op = "list") =>
        LET q == last.args
            items == last.body.items
            full == FullResult(q)
            offset == (q.page - 1) * q.limit
            rest == IF offset >= Len(full) THEN 0 ELSE Len(full) - offset
        IN  /\ Ordered(full, q)
            /\ Len(full) = Cardinality({i \in 1..Len(Served) : PathMatch(Served[i], q)})
            /\ last.body.total = Len(full)
            /\ Len(items) <= q.limit
            /\ Len(items) = Min(q.limit, rest)
            /\ \A i \in 1..Len(items) : items[i] = full[offset + i]

\* C1 witness: the database path answered page 2 with a last, partly filled page.
C1_Witness ==
    /\ last.done /\ last.op = "list" /\ db
    /\ last.args.page = 2
    /\ Len(last.body.items) > 0
    /\ Len(last.body.items) < last.args.limit
    /\ last.body.total = last.args.limit + Len(last.body.items)

\* The filter as the specification words it: type equal in full, ignoring
\* case; search a substring of name, ignoring case.
ClaimedMatch(g, q) ==
    /\ (q.type = <<>> \/ Lower(g.type) = Lower(q.type))
    /\ (q.search = <<>> \/ Contains(Lower(q.search), Lower(g.name)))

\* C2: on either path, list selects exactly the records whose type equals the
\* type parameter in full, ignoring case, and whose name contains the search
\* parameter, ignoring case; for every type and search string.
C2_FilterIsExact ==
    (last.done /\ last.op = "list") =>
        /\ last.body.total =
              Cardinality({i \in 1..Len(Served) : ClaimedMatch(Served[i], last.args)})
        /\ \A i \in 1..Len(last.body.items) :
              ClaimedMatch(last.body.items[i], last.args)

\* C3: with the collection holding the records of the sample dataset, the
\* database path answers every list request with the same sequence of
\* records (on their Gem fields) and the same total as the fallback path,
\* every identifier a string.
C3_PathsAgree ==
    ( /\ last.done /\ last.op = "list" /\ db
      /\ Len(coll) = Len(sample_gems)
      /\ \A i \in 1..Len(coll) : GemFields(coll[i]) = GemFields(sample_gems[i]) ) =>
        LET fallback == ListSample(last.args)
        IN  /\ last.body.total = fallback.total
            /\ Len(last.body.items) = Len(fallback.items)
            /\ \A i \in 1..Len(last.body.items) :
                  /\ GemFields(last.body.items[i]) = GemFields(fallback.items[i])
                  /\ last.body.items[i]._id.kind = "str"
                  /\ fallback.items[i]._id.kind = "str"

SampleIds == {sample_gems[i]._id : i \in 1..Len(sample_gems)}

\* What a seed answer must go with: "existing" leaves a populated collection
\* as it was; "not seeded" is no error, comes without a database and inserts
\* nothing; a seed of the empty collection leaves exactly the sample count of
\* records, each with a database-assigned identifier that is no sample id and
\* all with one stamp, created_at = updated_at.
SeedAnswerOk ==
    (Answers /\ last'.op = "seed") =>
        /\ last'.status = 200
        /\ IF ~last'.body.seeded
           THEN ~db /\ coll' = coll /\ coll = <<>>
           ELSE IF "existing" \in DOMAIN last'.body
           THEN db /\ coll' = coll /\ Len(coll) > 0
           ELSE /\ db /\ coll = <<>>
                /\ Len(coll') = Len(sample_gems)
                /\ \A i \in 1..Len(coll') :
                      /\ coll'[i]._id.kind = "ObjectId"
                      /\ StrOf(coll'[i]._id) \notin SampleIds
                      /\ \A j \in 1..Len(coll') :
                            i # j => coll'[i]._id # coll'[j]._id
                      /\ GemFields(coll'[i]) = GemFields(sample_gems[i])
                      /\ coll'[i].created_at.kind = "datetime"
                      /\ coll'[i].created_at = coll'[i].updated_at
                      /\ coll'[i].created_at = coll'[1].created_at

\* C4: seed is idempotent when requests run one after another: on a populated
\* collection it changes nothing and reports existing data, on an empty one it
\* inserts the 6 sample records under fresh identifiers with one stamp, and
\* without a database it inserts nothing and reports not seeded.
C4_SeedIdempotent == [][SeedAnswerOk]_vars

\* C4 witness: a seed found the collection populated by an earlier seed.
C4_Witness ==
    /\ last.done /\ last.op = "seed"
    /\ last.body = [seeded |-> TRUE, existing |-> TRUE]
    /\ Len(coll) = Len(sample_gems)
    /\ \A i \in 1..Len(coll) : GemFields(coll[i]) = GemFields(sample_gems[i])

Stamped(d) ==
    /\ d.created_at.kind = "datetime"
    /\ d.updated_at.kind = "datetime"
    /\ d.created_at.t <= d.updated_at.t

\* The step of an update that writes: created_at stays on every record, and
\* the record written gets the clock's reading as updated_at, which is later
\* than the old one whenever the clock has moved since.
UpdateStampsOk ==
    (req[1] = Routed("update") /\ req'[1].pc = "update_find") =>
        /\ Len(coll') = Len(coll)
        /\ \A i \in 1..Len(coll) :
              /\ coll'[i]._id = coll[i]._id
              /\ coll'[i].created_at = coll[i].created_at
              /\ IF coll[i]._id = req'[1].obj_id
                 THEN /\ coll'[i].updated_at = Datetime(clock)
                      /\ coll'[i].updated_at.t >= coll[i].updated_at.t
                      /\ clock > coll[i].updated_at.t =>
                            coll'[i].updated_at # coll[i].updated_at
                 ELSE coll'[i] = coll[i]

CreateStampsOk ==
    (Answers /\ last'.op = "create" /\ last'.status = 200) =>
        /\ last'.body.created_at = Datetime(clock)
        /\ last'.body.updated_at = last'.body.created_at
        /\ \E i \in 1..Len(coll') : Stringified(coll'[i]) = last'.body

\* C5: after any sequence of create, update, delete and seed requests every
\* record has both stamps set with created_at <= updated_at; create sets both
\* to one instant, an update writes updated_at and leaves created_at alone.
C5_StampsOrdered ==
    /\ [](\A i \in 1..Len(coll) : Stamped(coll[i]))
    /\ [][UpdateStampsOk /\ CreateStampsOk]_vars

\* C5 witness: a record that was updated after the clock moved.
C5_Witness ==
    /\ last.done /\ last.op = "update" /\ last.status = 200
    /\ last.body.created_at.t < last.body.updated_at.t

\* The identifier a get, update or delete answer is about.
AnswerId(r) == IF r.op = "update" THEN r.args.gem_id ELSE r.args

\* C6: once a delete of an identifier has succeeded, the record is gone for
\* good: every later get, update and delete of it answers NotFound (404),
\* because no insert ever gives the identifier out again.
C6_DeletedStaysGone ==
    /\ [](\A i \in 1..Len(coll) : coll[i]._id \notin deleted)
    /\ [][ (Answers /\ last'.op \in {"get", "update", "delete"}
                    /\ ObjectId(AnswerId(last')) \in deleted)
             => last'.status = 404 ]_vars

\* C6 witness: a get of a deleted identifier after a later insert.
C6_Witness ==
    /\ last.done /\ last.op = "get" /\ last.status = 404
    /\ ObjectId(last.args) \in deleted
    /\ \E i \in 1..Len(coll) : coll[i]._id.n > ObjectId(last.args).n

\* C7: without a database create, update and delete answer 503 for every
\* identifier (a malformed one too) and payload and change nothing, and get
\* and list keep serving the 6 sample records.
C7_ReadOnlyWithoutDatabase ==
    ~db =>
        /\ coll = <<>> /\ nextOid = 1 /\ deleted = {}
        /\ (last.done /\ last.op \in {"create", "update", "delete"}) =>
              last.status = 503
        /\ (last.done /\ last.op = "get") =>
              IF last.args \in SampleIds
              THEN /\ last.status = 200
                   /\ last.body \in {sample_gems[i] : i \in 1..6}
                   /\ last.body._id = last.args
              ELSE last.status = 404
        /\ (last.done /\ last.op = "list") =>
              /\ last.status = 200
              /\ \A i \in 1..Len(last.body.items) :
                    last.body.items[i] \in {sample_gems[k] : k \in 1..6}
              /\ (last.args.type = <<>> /\ last.args.search = <<>>) =>
                    last.body.total = 6

\* C7 witness: an update with a malformed identifier was refused with 503.
C7_Witness ==
    /\ ~db /\ last.done /\ last.op = "update"
    /\ ObjectId(last.args.gem_id) = Missing
    /\ last.status = 503

\* C8: every record of the collection has a gallery that is a sequence,
\* whatever payload the schema accepted.
C8_GalleryIsSequence ==
    \A i \in 1..Len(coll) : coll[i].gallery.kind = "list"

\* C9: under every interleaving an update ends with the stored record, its
\* identifier a string, or with NotFound, InvalidIdentifier or
\* ServiceUnavailable.
C9_UpdateOutcomes ==
    (last.done /\ last.op = "update") =>
        /\ last.status \in {200, 400, 404, 503}
        /\ last.status = 200 => last.body._id.kind = "str"

\* C10: under every interleaving of concurrent seed requests the collection
\* never holds two copies of a sample record.
C10_OneCopyOfSample ==
    \A k \in 1..Len(sample_gems) :
        Cardinality({i \in 1..Len(coll) :
                        GemFields(coll[i]) = GemFields(sample_gems[k])}) <= 1

====
